---------------------------- MODULE Spec2Model ----------------------------
(***************************************************************************)
(* A model of python/PandemicAnalyzer.py: the command line dispatch, the   *)
(* data preparation stage (makeAllHistograms), the summary plot stage      *)
(* (makeSummaryPlotsAndSavePDF) and the logistic fit stage (runAnalysis),  *)
(* over a data directory of snapshot CSV files and the container file      *)
(* case-reports.root.                                                      *)
(*                                                                         *)
(* A snapshot row keeps the columns the program reads: Place, Confirmed,   *)
(* Recovered and Deaths (Region and Last Update are never read).  A        *)
(* histogram keeps its name, its number of bins and, for the bins          *)
(* 1..nbins, the content and the error.  An error is the real number       *)
(* linear/100 + sqrt(radicand); it is kept exactly, as that pair.          *)
(* The container is the sequence of the objects written to it: writing a   *)
(* name again adds a cycle, reading a name gets its last cycle.            *)
(*                                                                         *)
(* The counts of a row are natural numbers (a cell pandas would read as    *)
(* NaN is not modelled), and the floating point numbers of the program     *)
(* are taken as the reals they stand for.  What ROOT does inside Fit and   *)
(* the drawing calls is not modelled: the fit stage is its container       *)
(* accesses and the range it gives to Fit.                                 *)
(***************************************************************************)
EXTENDS Integers, Sequences, FiniteSets, TLC

\* ------------------------------------------------------------------ bounds
\* How many of COUNTRY_KEYS the model loops over.
NumCountries == 2
\* Snapshot files 'COVID-19 Surveillance Dashboard (i).csv' exist for some i < MaxFiles.
MaxFiles == 2
\* At most MaxRows rows in all the snapshot files of the data directory together,
\* when the program is invoked with -p alone (SpecPrep).
MaxRows == 3
\* The same, for any command line, with other files in the directory and a
\* container file left by an earlier run (Spec).
MaxRowsPipeline == 2
\* Confirmed, Recovered and Deaths of a row are in 0..MaxCount.
MaxCount == 1
\* How many times the program is invoked on one data directory.
MaxRuns == 2
\* The number of days of the series in a container left by an earlier prep run.
PriorDays == 8

\* --------------------------------------------------------------- constants
AllCountryKeys ==
    << "USA", "Italy", "France", "Switzerland", "Mainland China", "Iran",
       "Spain", "South Korea", "Taiwan", "Germany", "United Kingdom", "India" >>

COUNTRY_KEYS == SubSeq(AllCountryKeys, 1, NumCountries)

DATA_KEYS_TO_PLOT == << "Confirmed", "Active" >>

\* dataScaleFactor = 1.0
dataScaleFactor == 1
\* errorScaleFactor = 0.10, in percent
errorScalePercent == 10
\* the lower bound of the fit range in hist.Fit(logisticFunc, '', '', 9, nBins)
FitXMin == 9

Flags == { "p", "s", "a" }

\* ------------------------------------------------------------- file names
\* 'COVID-19 Surveillance Dashboard ({0}).csv'.format(ii)
SnapshotName(ii) == << "COVID-19 Surveillance Dashboard", ii, ".csv" >>
\* Two other files a data directory may hold.
OtherCsv == << "notes", 0, ".csv" >>
NonCsv == << ".DS_Store", 0, "" >>

\* '.csv' in fname
HasCsv(fname) == fname[3] = ".csv"

\* ------------------------------------------------------------ data frames
Places == { COUNTRY_KEYS[i] : i \in 1..NumCountries }
Counts == 0..MaxCount
Rows == [ Place : Places, Confirmed : Counts, Recovered : Counts, Deaths : Counts ]

RECURSIVE Concat(_)
\* pd.concat(dfList): the frames' rows, in the order of the list
Concat(dfList) ==
    IF dfList = << >> THEN << >> ELSE Head(dfList) \o Concat(Tail(dfList))

\* df.loc[df[PLACE_KEY] == countryString]
LocPlace(df, countryString) ==
    SelectSeq(df, LAMBDA row : row.Place = countryString)

\* a variant that returns the rows of every place
getDataForCountry_NoFilter(dir, fileString, countryString) == dir[fileString]

\* pd.read_csv(fileString) followed by the selection of the country's rows
getDataForCountry(dir, fileString, countryString) ==
    LocPlace(dir[fileString], countryString)

\* a variant that leaves the deaths in
ActiveOf_DropDeaths(row) == row.Confirmed - row.Recovered

\* df['Confirmed'] - df['Recovered'] - df['Deaths'], for one row
ActiveOf(row) == row.Confirmed - row.Recovered - row.Deaths

\* df['Active'] = ...: the frame with the column Active set in every row
WithActive(df) ==
    [ k \in 1..Len(df) |->
        [ Place |-> df[k].Place, Confirmed |-> df[k].Confirmed,
          Recovered |-> df[k].Recovered, Deaths |-> df[k].Deaths,
          Active |-> ActiveOf(df[k]) ] ]

\* dataframe[column].tolist()
Column(dataframe, column) == [ k \in 1..Len(dataframe) |-> dataframe[k][column] ]

\* ------------------------------------------------------------- histograms
\* math.sqrt(datum) raises ValueError for a negative datum
SqrtRaises(datum) == datum < 0

\* whether makeHistogramFromDataFrameColumn raises on this column
HistogramRaises(dataframe, column) ==
    \E k \in 1..Len(dataframe) : SqrtRaises(dataScaleFactor * dataframe[k][column])

\* a variant with errorScaleFactor = 0.20
BinError_Double(datum) == [ linear |-> 2 * errorScalePercent * datum, radicand |-> datum ]

\* errorScaleFactor*datum + math.sqrt(datum)
BinError(datum) == [ linear |-> errorScalePercent * datum, radicand |-> datum ]

\* the number of bins given to ROOT.TH1F: nPoints+1
NumBins(nPoints) == nPoints + 1

\* The histogram the function returns when no square root raises: a TH1F of
\* nPoints+1 bins with bin ii+1 set for ii in range(nPoints); a bin that is
\* never set has content 0 and error 0.
makeHistogramFromDataFrameColumn(dataframe, column, tag) ==
    LET xData == Column(dataframe, column)
        nPoints == Len(xData)
        datum(k) == dataScaleFactor * xData[k]
    IN  [ name |-> << "h", column, tag >>,
          nbins |-> NumBins(nPoints),
          content |-> [ b \in 1..NumBins(nPoints) |->
                          IF b <= nPoints THEN datum(b) ELSE 0 ],
          error |-> [ b \in 1..NumBins(nPoints) |->
                        IF b <= nPoints THEN BinError(datum(b)) ELSE BinError(0) ] ]

\* ------------------------------------------------------------- container
\* rfile.Get(name): the last object written under the name, NoObject if none
NoObject == [ name |-> << >>, nbins |-> 0, content |-> << >>, error |-> << >> ]

HasKey(file, name) == \E k \in 1..Len(file) : file[k].name = name

Get(file, name) ==
    IF HasKey(file, name)
    THEN file[CHOOSE k \in 1..Len(file) :
                /\ file[k].name = name
                /\ \A j \in (k+1)..Len(file) : file[j].name # name]
    ELSE NoObject

\* a variant that opens the file as 'update' does: what it holds is kept
OpenUpdate(file) == file

\* ROOT.TFile(..., 'recreate'): the file is created anew, whatever it held
OpenRecreate(file) == << >>


\* ---------------------------------------------------------------- dispatch
\* a variant whose chain tests doOnlySavePlots before doOnlyAnalysis
StagesFor_PlotsFirst(flags) ==
    IF "p" \in flags THEN << "prep" >>
    ELSE IF "s" \in flags THEN << "summary" >>
    ELSE IF "a" \in flags THEN << "analysis" >>
    ELSE << "prep", "summary", "analysis" >>

\* The stages the if/elif chain of __main__ calls, in the order it calls them.
StagesFor(flags) ==
    IF "p" \in flags THEN << "prep" >>
    ELSE IF "a" \in flags THEN << "analysis" >>
    ELSE IF "s" \in flags THEN << "summary" >>
    ELSE << "prep", "summary", "analysis" >>

\* where the program goes when a stage returns: the next call, or the end
NextPc(stages) == IF stages = << >> THEN "exit" ELSE Head(stages)

\* ------------------------------------------------------------------- state
VARIABLES
    args,       \* the flags of the command line
    pc,         \* where the process is
    todo,       \* the stages __main__ has still to call
    ran,        \* the stages called so far in this invocation
    dataDir,    \* DATA_DIR: file name -> rows of the file
    container,  \* PLOT_DIR/case-reports.root: the objects written to it
    pdfs,       \* the PDF files saved in PLOT_DIR
    data,       \* makeAllHistograms: data
    dfList,     \* makeAllHistograms: dfList
    nPoints,    \* makeAllHistograms: nPoints
    ci,         \* makeAllHistograms: index of country in COUNTRY_KEYS
    ii,         \* makeAllHistograms: ii
    ki,         \* makeAllHistograms: index of plotKey in DATA_KEYS_TO_PLOT
    opened,     \* the file names given to pd.read_csv in this invocation
    log,        \* the container operations of this invocation, in order
    error,      \* the exception that ended the process, "none" if none
    fitRange,   \* the range given to hist.Fit, << >> if no fit was done
    runs,       \* invocations so far
    containerAtStart  \* history: the container when this invocation started

vars == << args, pc, todo, ran, dataDir, container, pdfs, data, dfList, nPoints,
           ci, ii, ki, opened, log, error, fitRange, runs, containerAtStart >>

prepLocals == << data, dfList, nPoints, ci, ii, ki >>

Event(stage, op) == [ stage |-> stage, op |-> op ]

\* ------------------------------------------------------------------ inputs
RECURSIVE SumTo(_, _)
SumTo(l, n) == IF n < 0 THEN 0 ELSE l[n] + SumTo(l, n - 1)

\* How many rows each snapshot file may hold: none in a file that is not
\* there, at most maxRows in all.
RowCounts(present, maxRows) ==
    { m \in [ 0..(MaxFiles - 1) -> 0..maxRows ] :
        /\ SumTo(m, MaxFiles - 1) <= maxRows
        /\ \A i \in 0..(MaxFiles - 1) : i \notin present => m[i] = 0 }

\* The data directory that holds the snapshot files of `present`, file i with
\* the next l[i] rows of rowsAll, and the other files of `extras`.
DirOf(present, extras, l, rowsAll) ==
    [ f \in { SnapshotName(i) : i \in present } \cup extras |->
        IF f \in extras THEN << >>
        ELSE SubSeq(rowsAll, SumTo(l, f[2] - 1) + 1, SumTo(l, f[2])) ]

\* The series of one country in the snapshots of an earlier prep run.
PriorFrame(country) ==
    WithActive([ k \in 1..PriorDays |->
        [ Place |-> country, Confirmed |-> k, Recovered |-> 0, Deaths |-> 0 ] ])

\* The container an earlier prep run over PriorDays snapshots left.
PriorContainer ==
    [ n \in 1..(NumCountries * Len(DATA_KEYS_TO_PLOT)) |->
        LET c == COUNTRY_KEYS[((n - 1) \div Len(DATA_KEYS_TO_PLOT)) + 1]
            k == DATA_KEYS_TO_PLOT[((n - 1) % Len(DATA_KEYS_TO_PLOT)) + 1]
        IN  makeHistogramFromDataFrameColumn(PriorFrame(c), k, c) ]

\* no container file, or the one an earlier run left
PriorContainers == { << >>, PriorContainer }

\* Any of the snapshot files 0..MaxFiles-1, each with any rows, at most
\* maxRows rows in all, and any of the other files.
InitWith(argSets, maxRows, extraChoices, containers) ==
    /\ args \in argSets
    /\ \E present \in SUBSET (0..(MaxFiles - 1)), extras \in extraChoices :
         \E l \in RowCounts(present, maxRows) :
           \E rowsAll \in [ 1..SumTo(l, MaxFiles - 1) -> Rows ] :
             dataDir = DirOf(present, extras, l, rowsAll)
    /\ container \in containers
    /\ containerAtStart = container
    /\ pc = "main"
    /\ todo = << >>
    /\ ran = << >>
    /\ pdfs = { }
    /\ data = << >>
    /\ dfList = << >>
    /\ nPoints = 0
    /\ ci = 1
    /\ ii = 0
    /\ ki = 1
    /\ opened = << >>
    /\ log = << >>
    /\ error = "none"
    /\ fitRange = << >>
    /\ runs = 1

\* ----------------------------------------------------------------- __main__
\* parser.parse_args() and the if/elif chain, up to the first call
Main ==
    /\ pc = "main"
    /\ pc' = NextPc(StagesFor(args))
    /\ todo' = Tail(StagesFor(args))
    /\ UNCHANGED << args, ran, dataDir, container, pdfs, prepLocals, opened, log,
                    error, fitRange, runs, containerAtStart >>

\* -------------------------------------------------------- makeAllHistograms
\* the for loop over range(nPoints): the next file, or the histograms
AfterFile(next, n) == IF next < n THEN "prep_read" ELSE "prep_write"

\* len([fname for fname in os.listdir(DATA_DIR) if '.csv' in fname ])
CountCsv(dir) == Cardinality({ fname \in DOMAIN dir : HasCsv(fname) })

\* from the empty DataFrame to the first country's first file
PrepOpen ==
    /\ pc = "prep"
    /\ ran' = Append(ran, "prep")
    /\ data' = << >>
    /\ nPoints' = CountCsv(dataDir)
    /\ container' = OpenRecreate(container)
    /\ log' = Append(log, Event("prep", "open_recreate"))
    /\ ci' = 1
    /\ dfList' = << >>
    /\ ii' = 0
    /\ ki' = 1
    /\ pc' = AfterFile(0, CountCsv(dataDir))
    /\ UNCHANGED << args, todo, dataDir, pdfs, opened, error, fitRange, runs, containerAtStart >>

\* one pass of the loop over range(nPoints): read_csv, the country's rows,
\* the column Active, dfList.append and pd.concat
PrepRead ==
    /\ pc = "prep_read"
    /\ LET fname == SnapshotName(ii)
       IN  /\ opened' = Append(opened, fname)
           /\ IF fname \notin DOMAIN dataDir
              THEN /\ pc' = "raised"
                   /\ error' = "FileNotFoundError"
                   /\ UNCHANGED << data, dfList, ii >>
              ELSE LET df == WithActive(getDataForCountry(dataDir, fname, COUNTRY_KEYS[ci]))
                   IN  /\ dfList' = Append(dfList, df)
                       /\ data' = Concat(Append(dfList, df))
                       /\ ii' = ii + 1
                       /\ pc' = AfterFile(ii + 1, nPoints)
                       /\ error' = error
    /\ UNCHANGED << args, todo, ran, dataDir, container, pdfs, nPoints, ci, ki, log,
                    fitRange, runs, containerAtStart >>

\* one pass of the loop over DATA_KEYS_TO_PLOT: the histogram and its Write;
\* after the last key, the next country or f.Close()
PrepWrite ==
    /\ pc = "prep_write"
    /\ LET plotKey == DATA_KEYS_TO_PLOT[ki]
           country == COUNTRY_KEYS[ci]
       IN  IF HistogramRaises(data, plotKey)
           THEN /\ pc' = "raised"
                /\ error' = "ValueError"
                /\ UNCHANGED << container, log, ci, ii, ki, dfList >>
           ELSE /\ container' = Append(container,
                                  makeHistogramFromDataFrameColumn(data, plotKey, country))
                /\ log' = Append(log, Event("prep", "write"))
                /\ error' = error
                /\ IF ki < Len(DATA_KEYS_TO_PLOT)
                   THEN /\ ki' = ki + 1
                        /\ UNCHANGED << pc, ci, ii, dfList >>
                   ELSE IF ci < Len(COUNTRY_KEYS)
                   THEN /\ ci' = ci + 1
                        /\ dfList' = << >>
                        /\ ii' = 0
                        /\ ki' = 1
                        /\ pc' = AfterFile(0, nPoints)
                   ELSE /\ pc' = "prep_close"
                        /\ UNCHANGED << ci, ii, ki, dfList >>
    /\ UNCHANGED << args, todo, ran, dataDir, pdfs, data, nPoints, opened, fitRange, runs, containerAtStart >>

\* f.Close() and the return to __main__
PrepClose ==
    /\ pc = "prep_close"
    /\ log' = Append(log, Event("prep", "close"))
    /\ pc' = NextPc(todo)
    /\ todo' = IF todo = << >> THEN << >> ELSE Tail(todo)
    /\ UNCHANGED << args, ran, dataDir, container, pdfs, prepLocals, opened, error,
                    fitRange, runs, containerAtStart >>

\* ------------------------------------------------ makeSummaryPlotsAndSavePDF
\* drawAllHistogramsInList raises on a histogram rfile.Get did not find (with
\* no container file there is none to find)
CanDraw(file, country) ==
    /\ HasKey(file, << "h", "Confirmed", country >>)
    /\ HasKey(file, << "h", "Active", country >>)

\* the countries whose PDF is saved: those before the first that cannot be drawn
Drawn(file, countries) ==
    { countries[k] : k \in { j \in 1..Len(countries) :
                             \A m \in 1..j : CanDraw(file, countries[m]) } }

\* the whole stage: open for reading, a PDF per country, Close
SummaryPlots ==
    /\ pc = "summary"
    /\ ran' = Append(ran, "summary")
    /\ pdfs' = pdfs \cup { << c, "cases" >> : c \in Drawn(container, COUNTRY_KEYS) }
    /\ IF \A k \in 1..Len(COUNTRY_KEYS) : CanDraw(container, COUNTRY_KEYS[k])
       THEN /\ log' = log \o << Event("summary", "open_read"), Event("summary", "close") >>
            /\ pc' = NextPc(todo)
            /\ todo' = IF todo = << >> THEN << >> ELSE Tail(todo)
            /\ error' = error
       ELSE /\ log' = Append(log, Event("summary", "open_read"))
            /\ pc' = "raised"
            /\ error' = "NullHistogram"
            /\ todo' = todo
    /\ UNCHANGED << args, dataDir, container, prepLocals, opened, fitRange, runs, containerAtStart >>

\* ------------------------------------------------------------- runAnalysis
\* a variant with a range that does not follow the histogram
FitRange_Fixed(hist) == << FitXMin, FitXMin + 1 >>

\* hist.Fit(logisticFunc, '', '', 9, nBins) with nBins = hist.GetNbinsX()
FitRange(hist) == << FitXMin, hist.nbins >>

\* the whole stage: open for reading, the fit to h_Confirmed_USA, the PDF, Close
RunAnalysis ==
    /\ pc = "analysis"
    /\ ran' = Append(ran, "analysis")
    /\ IF HasKey(container, << "h", "Confirmed", "USA" >>)
       THEN /\ fitRange' = FitRange(Get(container, << "h", "Confirmed", "USA" >>))
            /\ pdfs' = pdfs \cup { << "USA", "LogisticFit" >> }
            /\ log' = log \o << Event("analysis", "open_read"), Event("analysis", "close") >>
            /\ pc' = NextPc(todo)
            /\ todo' = IF todo = << >> THEN << >> ELSE Tail(todo)
            /\ error' = error
       ELSE /\ log' = Append(log, Event("analysis", "open_read"))
            /\ pc' = "raised"
            /\ error' = "NullHistogram"
            /\ UNCHANGED << fitRange, pdfs, todo >>
    /\ UNCHANGED << args, dataDir, container, prepLocals, opened, runs, containerAtStart >>

\* ------------------------------------------------------------- invocations
\* The process has ended: normally, or by an exception, which nothing catches
\* (the try of __main__ catches KeyboardInterrupt alone).  What was written to
\* the container before the exception stays in it.
Ended == pc \in { "exit", "raised" }

\* The program is started again, on the same directories.
RerunWith(argSets) ==
    /\ Ended
    /\ runs < MaxRuns
    /\ runs' = runs + 1
    /\ args' \in argSets
    /\ pc' = "main"
    /\ todo' = << >>
    /\ ran' = << >>
    /\ data' = << >>
    /\ dfList' = << >>
    /\ nPoints' = 0
    /\ ci' = 1
    /\ ii' = 0
    /\ ki' = 1
    /\ opened' = << >>
    /\ log' = << >>
    /\ error' = "none"
    /\ fitRange' = << >>
    /\ containerAtStart' = container
    /\ UNCHANGED << dataDir, container, pdfs >>

Rerun == RerunWith(SUBSET Flags)

\* Any command line, any data directory, with or without an earlier container.
Init == InitWith(SUBSET Flags, MaxRowsPipeline, SUBSET { OtherCsv, NonCsv },
                 PriorContainers)

Next ==
    \/ Main
    \/ PrepOpen
    \/ PrepRead
    \/ PrepWrite
    \/ PrepClose
    \/ SummaryPlots
    \/ RunAnalysis
    \/ Rerun

Spec == Init /\ [][Next]_vars

\* The invocation with -p alone, on a directory of snapshot files only.
InitPrep == InitWith({ { "p" } }, MaxRows, { { } }, { << >> })

NextPrep ==
    \/ Main
    \/ PrepOpen
    \/ PrepRead
    \/ PrepWrite
    \/ PrepClose

SpecPrep == InitPrep /\ [][NextPrep]_vars

\* ================================================================ properties
\* The rows of snapshot file k whose Place is the country, in the file's order.
SnapshotRowsOf(country, k) ==
    SelectSeq(dataDir[SnapshotName(k)], LAMBDA r : r.Place = country)

RECURSIVE SeriesOf(_, _)
\* The country's rows of the snapshot files 0..n-1, in ascending file index order.
SeriesOf(country, n) ==
    IF n = 0 THEN << >> ELSE SeriesOf(country, n - 1) \o SnapshotRowsOf(country, n - 1)

\* A row of a frame without its derived column.
Reported(row) ==
    [ Place |-> row.Place, Confirmed |-> row.Confirmed,
      Recovered |-> row.Recovered, Deaths |-> row.Deaths ]

RECURSIVE TotalLen(_)
TotalLen(frames) == IF frames = << >> THEN 0 ELSE Len(Head(frames)) + TotalLen(Tail(frames))

\* makeAllHistograms has called f.Close() in this invocation.
PrepClosed == \E k \in 1..Len(log) : log[k] = Event("prep", "close")

HistName(column, country) == << "h", column, country >>

\* The objects of the container, as a set.
Objects(file) == { file[k] : k \in 1..Len(file) }

\* C1: every row of every country series has Active = Confirmed - Recovered -
\* Deaths of that same row: in each frame read, in the concatenated series
\* (which holds each row of the frames once) and in the Active histogram
\* written from it.
C1_ActiveIsDerivedPerRow ==
    /\ \A k \in 1..Len(data) :
         data[k].Active = data[k].Confirmed - data[k].Recovered - data[k].Deaths
    /\ \A j \in 1..Len(dfList) : \A k \in 1..Len(dfList[j]) :
         dfList[j][k].Active
            = dfList[j][k].Confirmed - dfList[j][k].Recovered - dfList[j][k].Deaths
    /\ dfList # << >> => Len(data) = TotalLen(dfList)
    /\ \A h \in Objects(container) :
         h.name[2] = "Active" =>
            \A k \in 1..(h.nbins - 1) :
               LET r == SeriesOf(h.name[3], nPoints)[k]
               IN  h.content[k] = r.Confirmed - r.Recovered - r.Deaths

\* C1 witness: a series with a row that has a death, and its Active histogram written.
C1_Witness ==
    /\ pc = "prep_close"
    /\ \E k \in 1..Len(data) :
         data[k].Deaths = 1 /\ data[k].Confirmed = 1 /\ data[k].Active = 0

\* C2: with nPoints >= 1, the series a country's histograms are made from is
\* exactly the country's rows of the snapshot files 0..nPoints-1, in ascending
\* file order, with no row of an earlier country.
C2_SeriesIsCountryRowsInFileOrder ==
    (pc = "prep_write" /\ nPoints >= 1) =>
        [ k \in 1..Len(data) |-> Reported(data[k]) ] = SeriesOf(COUNTRY_KEYS[ci], nPoints)

\* C2 witness: the second country's series, with rows in both of two snapshot
\* files, after a first country that had a row too.
C2_Witness ==
    /\ pc = "prep_write"
    /\ ci = 2
    /\ nPoints = 2
    /\ SnapshotRowsOf(COUNTRY_KEYS[1], 0) # << >>
    /\ SnapshotRowsOf(COUNTRY_KEYS[2], 0) # << >>
    /\ SnapshotRowsOf(COUNTRY_KEYS[2], 1) # << >>
    /\ Len(data) = 2

\* Each snapshot file counted holds exactly one row per country.
OneRowPerDay ==
    \A i \in 1..Len(COUNTRY_KEYS) : \A k \in 0..(nPoints - 1) :
        /\ SnapshotName(k) \in DOMAIN dataDir
        /\ Len(SnapshotRowsOf(COUNTRY_KEYS[i], k)) = 1

\* C3: when there are snapshots, each with one row per country, the histogram
\* of every country and metric written by the prep stage has the value of
\* snapshot k in bin k+1 for every k in 0..nPoints-1, and has no other bin.
C3_OneBinPerSnapshotDay ==
    (PrepClosed /\ nPoints >= 1 /\ OneRowPerDay) =>
        \A i \in 1..Len(COUNTRY_KEYS) : \A m \in 1..Len(DATA_KEYS_TO_PLOT) :
            LET h == Get(container, HistName(DATA_KEYS_TO_PLOT[m], COUNTRY_KEYS[i]))
                value(k) ==
                    LET r == SnapshotRowsOf(COUNTRY_KEYS[i], k)[1]
                    IN  IF DATA_KEYS_TO_PLOT[m] = "Confirmed" THEN r.Confirmed
                        ELSE r.Confirmed - r.Recovered - r.Deaths
            IN  /\ \A k \in 0..(nPoints - 1) : h.content[k + 1] = value(k)
                /\ h.nbins = nPoints

\* C4: the error of every bin is between 5% and 10% of the bin's value plus the
\* square root of the value.
C4_ErrorIsFractionPlusSqrt ==
    \A h \in Objects(container) : \A b \in 1..h.nbins :
        /\ h.error[b].radicand = h.content[b]
        /\ 5 * h.content[b] <= h.error[b].linear
        /\ h.error[b].linear <= 10 * h.content[b]

\* C4 witness: a bin written with a value above zero.
C4_Witness ==
    \E h \in Objects(container) : \E b \in 1..h.nbins : h.content[b] > 0

\* The frame of the country's rows in the snapshot files, with the derived column.
SeriesFrame(country) ==
    LET series == SeriesOf(country, nPoints)
    IN  [ k \in 1..Len(series) |->
            [ Place |-> series[k].Place, Confirmed |-> series[k].Confirmed,
              Recovered |-> series[k].Recovered, Deaths |-> series[k].Deaths,
              Active |-> series[k].Confirmed - series[k].Recovered - series[k].Deaths ] ]

\* C5: once makeAllHistograms has completed, the container holds exactly one
\* histogram per country and metric, made from the snapshots of the data
\* directory, whatever it held before (so a second prep run on the same
\* snapshots leaves what the first left).
C5_ContainerRebuilt ==
    PrepClosed =>
        /\ Len(container) = Len(COUNTRY_KEYS) * Len(DATA_KEYS_TO_PLOT)
        /\ Objects(container)
              = { makeHistogramFromDataFrameColumn(
                      SeriesFrame(COUNTRY_KEYS[i]), DATA_KEYS_TO_PLOT[m], COUNTRY_KEYS[i]) :
                  i \in 1..Len(COUNTRY_KEYS), m \in 1..Len(DATA_KEYS_TO_PLOT) }

\* C5 witness: a prep run completed on a container that held other histograms.
C5_Witness ==
    /\ PrepClosed
    /\ containerAtStart = PriorContainer
    /\ container # containerAtStart
    /\ \E h \in Objects(container) : h.nbins > 1

\* The container operations of the log that are not writes.
OpensAndCloses == SelectSeq(log, LAMBDA e : e.op # "write")

\* C6: an invocation with no flags runs prep, summary plots and fit, each once
\* and in that order; prep closes the container before the summary stage opens
\* it, that one closes it before the fit opens it, and only prep writes.
C6_LinearPipeline ==
    (args = { } /\ Ended) =>
        /\ ran = << "prep", "summary", "analysis" >>
        /\ OpensAndCloses
              = << Event("prep", "open_recreate"), Event("prep", "close"),
                   Event("summary", "open_read"), Event("summary", "close"),
                   Event("analysis", "open_read"), Event("analysis", "close") >>
        /\ \A k \in 1..Len(log) : log[k].op = "write" => log[k].stage = "prep"

\* C7 as stated: the range given to the fit is the same whatever the number of
\* snapshots in the container (so the one of an empty series), and its lower
\* bound is not above its upper bound.
C7_FixedFitRange ==
    fitRange # << >> =>
        /\ fitRange = FitRange(makeHistogramFromDataFrameColumn(<< >>, "Confirmed", "USA"))
        /\ fitRange[1] <= fitRange[2]

\* C7 amended: the fit is over the range from 9 to nBins, the number of bins of
\* h_Confirmed_USA, which is the number of US rows in the container plus one
\* (after a prep run: the US rows of the snapshots plus one); the lower bound is
\* at most the upper bound exactly when there are 8 US rows or more.
C7_FitRangeFollowsBins ==
    fitRange # << >> =>
        LET h == Get(container, HistName("Confirmed", "USA"))
        IN  /\ fitRange[1] = 9
            /\ fitRange[2] = Len(h.content)
            /\ PrepClosed => fitRange[2] = Len(SeriesOf("USA", nPoints)) + 1
            /\ (fitRange[1] <= fitRange[2]) <=> (Len(h.content) - 1 >= 8)

\* C7 witness: a fit after a prep run in the same invocation, over a range
\* whose lower bound is above its upper bound.
C7_Witness ==
    /\ fitRange # << >>
    /\ PrepClosed
    /\ fitRange[2] = 3
    /\ fitRange[1] > fitRange[2]

StageOfFlag(flag) ==
    IF flag = "p" THEN "prep" ELSE IF flag = "s" THEN "summary" ELSE "analysis"

Called == { ran[k] : k \in 1..Len(ran) }

\* C8 as stated: when a flag is set and the invocation has ended without an
\* exception, the stage of every flag set was called and no other stage was.
C8_EveryFlagRunsItsStage ==
    (args # { } /\ pc = "exit") =>
        /\ \A flag \in args : StageOfFlag(flag) \in Called
        /\ \A flag \in Flags \ args : StageOfFlag(flag) \notin Called

\* C8 amended: when a flag is set, one stage is called, once: prep if -p is
\* set, otherwise the fit if -a is set, otherwise the summary plots; no stage
\* whose flag is not set is called.
C8_OneStageByPriority ==
    args # { } =>
        LET chosen == IF "p" \in args THEN "prep"
                      ELSE IF "a" \in args THEN "analysis" ELSE "summary"
        IN  /\ Len(ran) <= 1
            /\ Called \subseteq { chosen }
            /\ Ended => ran = << chosen >>
            /\ \A flag \in Flags \ args : StageOfFlag(flag) \notin Called

\* C8 witness: -a and -s together, ended with the fit alone called.
C8_Witness ==
    /\ args = { "a", "s" }
    /\ pc = "exit"
    /\ ran = << "analysis" >>

\* C9: the prep stage never gives pd.read_csv the name of a file that is not
\* in the data directory, and when it has completed, the files it opened are
\* the files it counted, each opened once per country.
C9_OpensTheFilesCounted ==
    /\ \A k \in 1..Len(opened) : opened[k] \in DOMAIN dataDir
    /\ PrepClosed =>
          /\ { opened[k] : k \in 1..Len(opened) }
                = { fname \in DOMAIN dataDir : fname[3] = ".csv" }
          /\ \A fname \in DOMAIN dataDir :
                fname[3] = ".csv" =>
                   Cardinality({ k \in 1..Len(opened) : opened[k] = fname })
                      = Len(COUNTRY_KEYS)

\* Every row of every file has non-negative counts.
CountsNonNegative ==
    \A fname \in DOMAIN dataDir : \A k \in 1..Len(dataDir[fname]) :
        /\ dataDir[fname][k].Confirmed >= 0
        /\ dataDir[fname][k].Recovered >= 0
        /\ dataDir[fname][k].Deaths >= 0

\* C10: with non-negative Confirmed, Recovered and Deaths in every row, no
\* square root of the error estimate fails, so a prep run that found its files
\* reaches f.Close().
C10_SqrtNeverFails ==
    CountsNonNegative =>
        /\ error # "ValueError"
        /\ ("prep" \in Called /\ Ended /\ error # "FileNotFoundError") => PrepClosed

=============================================================================
